---- MODULE Spec2Model ----
(***************************************************************************)
(* Model of set_page_language_from_file.py: a script that logs into a      *)
(* MediaWiki site, reads page titles from a file and issues one            *)
(* action=setpagelanguage call per title.                                  *)
(*                                                                         *)
(* The script is sequential.  Its inputs are the two configured            *)
(* credentials, the replies of the remote API and the content of the       *)
(* pages file.  Each action below is the stretch of code that issues one   *)
(* request (or opens the file), receives the reply and runs up to the      *)
(* next request or to the end of the process.                              *)
(*                                                                         *)
(* Strings that the code inspects character by character (file content,    *)
(* lines, titles) are sequences of one-character strings.  A printed line  *)
(* is a record of the parts the f-string is built from.                    *)
(***************************************************************************)
EXTENDS Integers, Sequences, FiniteSets, TLC

VARIABLES
    BOT_USER_NAME,   \* configured user name (line 29)
    BOT_PASSWORD,    \* configured password (line 30)
    pc,              \* position of the process
    main_called,     \* whether main() was entered
    calls,           \* the HTTP requests issued on the session, in order
    out,             \* the lines printed so far
    login_token,     \* local of login_and_get_csrf_token
    login_data,      \* the reply to the login post
    csrf_token,      \* local of main
    file_state,      \* "unopened", "read", or why the file could not be read
    file_content,    \* the content open() found
    page_titles,     \* local of main
    processed,       \* number of titles the loop has taken
    write_replies,   \* the replies to the write calls, in order
    uncaught,        \* class of the exception that left main, "" if none
    exit_status,     \* process exit status, -1 while running
    json_error       \* the class response.json() raises on a body that is no JSON

vars == <<BOT_USER_NAME, BOT_PASSWORD, pc, main_called, calls, out, login_token,
          login_data, csrf_token, file_state, file_content, page_titles,
          processed, write_replies, uncaught, exit_status, json_error>>

(***************************************************************************)
(* Bounds and configuration                                                *)
(***************************************************************************)
MaxFileLen == 5

MaxControlLen == 3

TARGET_LANG == "es"

PlaceholderUser == "bot_user_name"

PlaceholderPassword == "bot_password"

UserNames == {PlaceholderUser, "Wiki@bot"}

Passwords == {PlaceholderPassword, "s3cret"}

\* Characters a pages file is made of in this model: the longer contents are
\* made of a letter, the space and the newline, the shorter ones of a letter,
\* the newline, the carriage return, the vertical tab (0x0B) and the file
\* separator (0x1C).
Chars == {"a", " ", "\n"}

ControlChars == {"a", "\n", "\r", "", ""}

\* What str.strip() removes: the characters for which str.isspace() holds.
\* Those are the ten ASCII characters 0x09-0x0D, 0x1C-0x1F and 0x20 listed
\* here, and U+0085, U+00A0, U+1680, U+2000-U+200A, U+2028, U+2029, U+202F,
\* U+205F and U+3000, which a string of this module cannot hold: file content
\* is ASCII here.
Whitespace == {"\t", "\n", "", "\f", "\r", "", "", "", "", " "}

FileContents ==
    UNION {[1..n -> Chars] : n \in 0..MaxFileLen}
    \cup UNION {[1..n -> ControlChars] : n \in 0..MaxControlLen}

\* What open() and the reading of the file can come to: a text, or the
\* exception of a missing file, a directory, a file without read permission,
\* bytes that are no UTF-8.
FileKinds == {"text", "missing", "directory", "unreadable", "notutf8"}

\* The two classes response.json() raises on a body that is no JSON:
\* requests.exceptions.JSONDecodeError, a RequestException (requests 2.27 and
\* later), and json.JSONDecodeError, a ValueError (before).
JsonErrorClasses == {"requests.JSONDecodeError", "json.JSONDecodeError"}

JsonNull == "<null>"

Absent == "<absent>"

(***************************************************************************)
(* Input reader: [line.strip() for line in f if line.strip()]              *)
(***************************************************************************)
RECURSIVE lstrip(_)
lstrip(s) ==
    IF s = <<>> THEN <<>>
    ELSE IF Head(s) \in Whitespace THEN lstrip(Tail(s)) ELSE s

RECURSIVE rstrip(_)
rstrip(s) ==
    IF s = <<>> THEN <<>>
    ELSE IF s[Len(s)] \in Whitespace THEN rstrip(SubSeq(s, 1, Len(s) - 1)) ELSE s

strip_lstrip_only(s) == lstrip(s)

strip(s) == rstrip(lstrip(s))

\* open(..., 'r') reads with universal newlines: "\r\n" and a lone "\r" are
\* handed over as "\n".
RECURSIVE UniversalNewlines(_)
UniversalNewlines(content) ==
    IF content = <<>> THEN <<>>
    ELSE IF Head(content) # "\r"
    THEN <<Head(content)>> \o UniversalNewlines(Tail(content))
    ELSE IF Len(content) >= 2 /\ content[2] = "\n"
    THEN <<"\n">> \o UniversalNewlines(SubSeq(content, 3, Len(content)))
    ELSE <<"\n">> \o UniversalNewlines(Tail(content))

\* Iterating a text file yields its lines, each with its terminating newline
\* (the last one without, when the file does not end in a newline).
RECURSIVE SplitLines(_)
SplitLines(content) ==
    IF content = <<>> THEN <<>>
    ELSE LET nl == {i \in 1..Len(content) : content[i] = "\n"}
             cut == IF nl = {} THEN Len(content)
                    ELSE CHOOSE i \in nl : \A j \in nl : i <= j
         IN <<SubSeq(content, 1, cut)>>
            \o SplitLines(SubSeq(content, cut + 1, Len(content)))

FileLines(content) == SplitLines(UniversalNewlines(content))

RECURSIVE StripAndKeep(_)
StripAndKeep(lines) ==
    IF lines = <<>> THEN <<>>
    ELSE LET t == strip(Head(lines))
         IN (IF t # <<>> THEN <<t>> ELSE <<>>) \o StripAndKeep(Tail(lines))

ReadTitles(content) == StripAndKeep(FileLines(content))

(***************************************************************************)
(* Printed lines and issued requests                                       *)
(***************************************************************************)
\* A printed line: which print statement produced it and the values its
\* f-string interpolates.
Line(kind, title, a, b) ==
    [kind |-> kind, title |-> title, a |-> a, b |-> b, n |-> 0]

\* Line 50: the line that reports len(page_titles).
FoundLine(n) == [Line("found", <<>>, "", "") EXCEPT !.n = n]

\* A request on the session: the action parameter, the meta/type of a token
\* query, and the parameters the login and write calls carry.
Call(action, type, title, token, lang, name, password) ==
    [action |-> action, type |-> type, title |-> title, token |-> token,
     lang |-> lang, lgname |-> name, lgpassword |-> password]

LoginTokenCall == Call("query", "login", <<>>, "", "", "", "")

LoginCall(name, password, token) == Call("login", "", <<>>, token, "", name, password)

\* The query of lines 93-98 names no type; the API then gives the CSRF token.
CsrfTokenCall == Call("query", "", <<>>, "", "", "", "")

WriteCall(title, token) == Call("setpagelanguage", "", title, token, TARGET_LANG, "", "")

(***************************************************************************)
(* Replies of the remote API                                               *)
(*                                                                         *)
(* http: "ok", or the requests exception the call or raise_for_status()    *)
(* raises.  body: "notjson", or the JSON type of the decoded body.  The    *)
(* remaining fields describe the members of a JSON object the code reads;  *)
(* Absent means the key is not there.                                      *)
(***************************************************************************)
HttpFailures == {"ConnectionError", "HTTPError"}

\* Replies to a meta=tokens query.  path tells how data['query']['tokens']
\* resolves in an object body: Absent when a key on the way is missing,
\* "nonobject" when data['query'] or data['query']['tokens'] is there and is
\* no object, "object" when it is the object of the tokens; token is
\* data['query']['tokens'][<name>].
TokenReply(http, body, path, token) ==
    [http |-> http, body |-> body, path |-> path, token |-> token]

TokenReplies(tokens) ==
    {TokenReply(h, Absent, Absent, Absent) : h \in HttpFailures}
    \cup {TokenReply("ok", b, Absent, Absent) : b \in {"notjson", "array"}}
    \cup {TokenReply("ok", "object", q, Absent) : q \in {Absent, "nonobject", "object"}}
    \cup {TokenReply("ok", "object", "object", t) : t \in tokens}

LoginTokens == {"LT1"}

CsrfTokens == {"CT1"}

\* Replies to action=login; login is the JSON type of data['login'].
LoginReply(http, body, login, result, reason) ==
    [http |-> http, body |-> body, login |-> login, result |-> result,
     reason |-> reason]

LoginResults == {Absent, "Success", "Failed"}

LoginReasons == {Absent, JsonNull, "Incorrect username or password entered."}

LoginReplies ==
    {LoginReply(h, Absent, Absent, Absent, Absent) : h \in HttpFailures}
    \cup {LoginReply("ok", b, Absent, Absent, Absent) : b \in {"notjson", "array"}}
    \cup {LoginReply("ok", "object", l, Absent, Absent) : l \in {Absent, "string"}}
    \cup {LoginReply("ok", "object", "object", r, m) :
            r \in LoginResults, m \in LoginReasons}

NoLoginReply == LoginReply("none", Absent, Absent, Absent, Absent)

\* Replies to action=setpagelanguage; error and spl are the JSON types of
\* data['error'] and data['setpagelanguage'], info is data['error']['info'],
\* from and to are the members of data['setpagelanguage'].  For a body that
\* is an array or a string, error and spl are "member" when 'error' in data
\* and 'setpagelanguage' in data hold (an element of the array, a substring
\* of the string).
WriteReply(http, body, error, info, spl, from, to) ==
    [http |-> http, body |-> body, error |-> error, info |-> info,
     spl |-> spl, from |-> from, to |-> to]

ErrorMembers ==
    {<<Absent, Absent>>, <<"string", Absent>>, <<"object", Absent>>,
     <<"object", "Invalid CSRF token.">>}

SplMembers ==
    {<<Absent, Absent, Absent>>, <<"array", Absent, Absent>>}
    \cup {<<"object", f, t>> : f \in {Absent, "en"}, t \in {Absent, "fr"}}

WriteReplies ==
    {WriteReply(h, Absent, Absent, Absent, Absent, Absent, Absent) : h \in HttpFailures}
    \cup {WriteReply("ok", b, Absent, Absent, Absent, Absent, Absent) :
            b \in {"notjson", "null", "number", "boolean"}}
    \cup {WriteReply("ok", b, m[1], Absent, m[2], Absent, Absent) :
            b \in {"array", "string"},
            m \in {<<Absent, Absent>>, <<"member", Absent>>, <<Absent, "member">>}}
    \cup {WriteReply("ok", "object", Absent, Absent, s[1], s[2], s[3]) :
            s \in SplMembers}
    \cup {WriteReply("ok", "object", e[1], e[2], s[1], s[2], s[3]) :
            e \in ErrorMembers \ {<<Absent, Absent>>},
            s \in {<<Absent, Absent, Absent>>, <<"object", "en", "fr">>}}

\* str() of a JSON value interpolated in an f-string.
Str(v) == IF v = JsonNull THEN "None" ELSE v

(***************************************************************************)
(* The pure parts of the three functions                                   *)
(***************************************************************************)
\* The check of the __main__ guard (line 137).
PlaceholderCredentials_And(user, password) ==
    user = PlaceholderUser /\ password = PlaceholderPassword

PlaceholderCredentials(user, password) ==
    user = PlaceholderUser \/ password = PlaceholderPassword

\* Lines 72-75 and 98-101: the exception a token query ends in, "" if none.
\* response.json() of a body that is no JSON raises JSONDecodeError; indexing
\* a list with a key raises TypeError; a missing key raises KeyError.
TokenQueryRaises(reply) ==
    IF reply.http # "ok" THEN reply.http
    ELSE IF reply.body = "notjson" THEN "JSONDecodeError"
    ELSE IF reply.body # "object" THEN "TypeError"
    ELSE IF reply.path = Absent THEN "KeyError"
    ELSE IF reply.path # "object" THEN "TypeError"
    ELSE IF reply.token = Absent THEN "KeyError"
    ELSE ""

\* Line 89: login_data.get('login', {}).get('result') != 'Success', on a reply
\* that decoded to an object whose login member, if any, is an object.
LoginSucceeded_NotFailed(reply) == reply.result # "Failed"

LoginSucceeded(reply) == reply.result = "Success"

\* Line 90: login_data.get('login', {}).get('reason', 'Unknown reason').
LoginFailureReason_NoDefault(reply) == Str(reply.reason)

LoginFailureReason(reply) ==
    IF reply.reason = Absent THEN "Unknown reason" ELSE Str(reply.reason)

\* Lines 85-90: the exception the login post ends in, "" if none.  .get() on
\* a list or a string raises AttributeError.
LoginRaises(reply) ==
    IF reply.http # "ok" THEN reply.http
    ELSE IF reply.body = "notjson" THEN "JSONDecodeError"
    ELSE IF reply.body # "object" THEN "AttributeError"
    ELSE IF reply.login \notin {Absent, "object"} THEN "AttributeError"
    ELSE IF ~LoginSucceeded(reply) THEN "Exception"
    ELSE ""

\* Line 42: the error line main prints for an exception of the login phase;
\* for the Exception of line 90 the message carries the reason.
LoginErrorLine(reply, raised) ==
    Line("login_error", <<>>, raised,
         IF raised = "Exception" THEN LoginFailureReason(reply) ELSE "")

\* Lines 47-54: what opening and reading the pages file gives.
OpenPagesFile_MissingIsEmpty(found, content) ==
    IF found = "text" THEN [raised |-> "", titles |-> ReadTitles(content)]
    ELSE IF found = "missing" THEN [raised |-> "", titles |-> <<>>]
    ELSE IF found = "directory" THEN [raised |-> "IsADirectoryError", titles |-> <<>>]
    ELSE IF found = "unreadable" THEN [raised |-> "PermissionError", titles |-> <<>>]
    ELSE [raised |-> "UnicodeDecodeError", titles |-> <<>>]

OpenPagesFile(found, content) ==
    IF found = "text" THEN [raised |-> "", titles |-> ReadTitles(content)]
    ELSE IF found = "missing" THEN [raised |-> "FileNotFoundError", titles |-> <<>>]
    ELSE IF found = "directory" THEN [raised |-> "IsADirectoryError", titles |-> <<>>]
    ELSE IF found = "unreadable" THEN [raised |-> "PermissionError", titles |-> <<>>]
    ELSE [raised |-> "UnicodeDecodeError", titles |-> <<>>]

\* Lines 113-133: what set_page_language does with the reply to its post:
\* the line it prints, or the exception that leaves it.  The except clause
\* takes requests.exceptions.RequestException, which the connection and
\* status errors are; of the two classes response.json() can raise it takes
\* the one of requests and not the one of json.  The in operator raises
\* TypeError on null, a number or a boolean; on an array or a string it
\* holds for an element or a substring, and the subscript with a key that
\* follows raises TypeError.
Printed(line) == [raised |-> "", line |-> line]

Raised(class) == [raised |-> class, line |-> Line("", <<>>, "", "")]

set_page_language(reply, json_raises) ==
    IF reply.http # "ok" THEN Printed(Line("http_error", <<>>, reply.http, ""))
    ELSE IF reply.body = "notjson"
    THEN IF json_raises = "requests.JSONDecodeError"
         THEN Printed(Line("http_error", <<>>, "JSONDecodeError", ""))
         ELSE Raised("JSONDecodeError")
    ELSE IF reply.body \notin {"array", "string", "object"} THEN Raised("TypeError")
    ELSE IF reply.body \in {"array", "string"}
    THEN IF reply.error # Absent \/ reply.spl # Absent THEN Raised("TypeError")
         ELSE Printed(Line("warning", <<>>, reply.body, ""))
    ELSE IF reply.error # Absent
    THEN IF reply.error # "object" THEN Raised("TypeError")
         ELSE IF reply.info = Absent THEN Raised("KeyError")
         ELSE Printed(Line("api_error", <<>>, Str(reply.info), ""))
    ELSE IF reply.spl # Absent
    THEN IF reply.spl # "object" THEN Raised("AttributeError")
         ELSE Printed(Line("success", <<>>,
                           IF reply.to = Absent THEN TARGET_LANG ELSE Str(reply.to),
                           IF reply.from = Absent THEN "[not previously set]"
                           ELSE Str(reply.from)))
    ELSE Printed(Line("warning", <<>>, reply.body, ""))

(***************************************************************************)
(* The process                                                             *)
(***************************************************************************)
Init ==
    /\ BOT_USER_NAME \in UserNames
    /\ BOT_PASSWORD \in Passwords
    /\ pc = "start"
    /\ main_called = FALSE
    /\ calls = <<>>
    /\ out = <<>>
    /\ login_token = ""
    /\ login_data = NoLoginReply
    /\ csrf_token = ""
    /\ file_state = "unopened"
    /\ file_content = <<>>
    /\ page_titles = <<>>
    /\ processed = 0
    /\ write_replies = <<>>
    /\ uncaught = ""
    /\ exit_status = -1
    /\ json_error \in JsonErrorClasses

\* sys.exit(status), the end of the script, or an exception leaving main.
Exit(status) ==
    /\ pc' = "exited"
    /\ exit_status' = status

\* Lines 135-140: the guard, and on passing it the entry into main.
StartScript ==
    /\ pc = "start"
    /\ IF PlaceholderCredentials(BOT_USER_NAME, BOT_PASSWORD)
       THEN /\ out' = Append(out, Line("credentials_warning", <<>>, "", ""))
            /\ Exit(0)
            /\ UNCHANGED main_called
       ELSE /\ main_called' = TRUE
            /\ pc' = "login_token"
            /\ UNCHANGED <<out, exit_status>>
    /\ UNCHANGED <<BOT_USER_NAME, BOT_PASSWORD, calls, login_token, login_data,
                   csrf_token, file_state, file_content, page_titles, processed,
                   write_replies, uncaught, json_error>>

\* Lines 38-43 around lines 66-75: the login-token query.
GetLoginToken ==
    /\ pc = "login_token"
    /\ calls' = Append(calls, LoginTokenCall)
    /\ \E reply \in TokenReplies(LoginTokens) :
         LET raised == TokenQueryRaises(reply) IN
         IF raised # ""
         THEN /\ out' = Append(out, Line("login_error", <<>>, raised, ""))
              /\ Exit(1)
              /\ UNCHANGED login_token
         ELSE /\ login_token' = reply.token
              /\ pc' = "login"
              /\ UNCHANGED <<out, exit_status>>
    /\ UNCHANGED <<BOT_USER_NAME, BOT_PASSWORD, main_called, login_data,
                   csrf_token, file_state, file_content, page_titles, processed,
                   write_replies, uncaught, json_error>>

\* Lines 38-43 around lines 78-90: the login post.
PostLogin ==
    /\ pc = "login"
    /\ calls' = Append(calls, LoginCall(BOT_USER_NAME, BOT_PASSWORD, login_token))
    /\ \E reply \in LoginReplies :
         LET raised == LoginRaises(reply) IN
         /\ login_data' = reply
         /\ IF raised # ""
            THEN /\ out' = Append(out, LoginErrorLine(reply, raised))
                 /\ Exit(1)
            ELSE /\ pc' = "csrf"
                 /\ UNCHANGED <<out, exit_status>>
    /\ UNCHANGED <<BOT_USER_NAME, BOT_PASSWORD, main_called, login_token,
                   csrf_token, file_state, file_content, page_titles, processed,
                   write_replies, uncaught, json_error>>

\* Lines 38-43 around lines 93-101: the CSRF-token query.
GetCsrfToken ==
    /\ pc = "csrf"
    /\ calls' = Append(calls, CsrfTokenCall)
    /\ \E reply \in TokenReplies(CsrfTokens) :
         LET raised == TokenQueryRaises(reply) IN
         IF raised # ""
         THEN /\ out' = Append(out, Line("login_error", <<>>, raised, ""))
              /\ Exit(1)
              /\ UNCHANGED csrf_token
         ELSE /\ csrf_token' = reply.token
              /\ out' = Append(out, Line("logged_in", <<>>, "", ""))
              /\ pc' = "read"
              /\ UNCHANGED exit_status
    /\ UNCHANGED <<BOT_USER_NAME, BOT_PASSWORD, main_called, login_token,
                   login_data, file_state, file_content, page_titles, processed,
                   write_replies, uncaught, json_error>>

\* Lines 46-54, and lines 57-61 when there is no title to process.  Only
\* FileNotFoundError is taken by the except clause of line 51; any other
\* exception of open() or of the decoding leaves main.
ReadPagesFile ==
    /\ pc = "read"
    /\ \E found \in FileKinds, content \in FileContents :
         LET opened == OpenPagesFile(found, content) IN
         /\ found = "text" \/ content = <<>>
         /\ file_content' = content
         /\ file_state' = IF found = "text" THEN "read" ELSE found
         /\ IF opened.raised = "FileNotFoundError"
            THEN /\ out' = out \o <<Line("file_not_found", <<>>, "", ""),
                                    Line("file_hint", <<>>, "", "")>>
                 /\ Exit(1)
                 /\ UNCHANGED <<page_titles, uncaught>>
            ELSE IF opened.raised # ""
            THEN /\ uncaught' = opened.raised
                 /\ Exit(1)
                 /\ UNCHANGED <<page_titles, out>>
            ELSE /\ page_titles' = opened.titles
                 /\ UNCHANGED uncaught
                 /\ IF opened.titles = <<>>
                    THEN /\ out' = out \o <<FoundLine(0),
                                            Line("finished", <<>>, "", "")>>
                         /\ Exit(0)
                    ELSE /\ out' = Append(out, FoundLine(Len(opened.titles)))
                         /\ pc' = "loop"
                         /\ UNCHANGED exit_status
    /\ UNCHANGED <<BOT_USER_NAME, BOT_PASSWORD, main_called, calls, login_token,
                   login_data, csrf_token, processed, write_replies, json_error>>

\* Lines 57-61: one turn of the loop, set_page_language included, and the
\* end of main after the last one.
ProcessTitle ==
    /\ pc = "loop"
    /\ processed < Len(page_titles)
    /\ LET title == page_titles[processed + 1] IN
       /\ calls' = Append(calls, WriteCall(title, csrf_token))
       /\ processed' = processed + 1
       /\ \E reply \in WriteReplies :
            LET done == set_page_language(reply, json_error)
                lines == <<Line("processing", title, "", "")>>
                         \o (IF done.raised = "" THEN <<done.line>> ELSE <<>>)
            IN
            /\ write_replies' = Append(write_replies, reply)
            /\ uncaught' = done.raised
            /\ IF done.raised # ""
               THEN /\ out' = out \o lines
                    /\ Exit(1)
               ELSE IF processed + 1 = Len(page_titles)
               THEN /\ out' = out \o lines \o <<Line("finished", <<>>, "", "")>>
                    /\ Exit(0)
               ELSE /\ out' = out \o lines
                    /\ UNCHANGED <<pc, exit_status>>
    /\ UNCHANGED <<BOT_USER_NAME, BOT_PASSWORD, main_called, login_token,
                   login_data, csrf_token, file_state, file_content, page_titles,
                   json_error>>

Next ==
    \/ StartScript
    \/ GetLoginToken
    \/ PostLogin
    \/ GetCsrfToken
    \/ ReadPagesFile
    \/ ProcessTitle

Spec == Init /\ [][Next]_vars

(***************************************************************************)
(* Vocabulary of the properties                                            *)
(***************************************************************************)
IsWriteCall(c) == c.action = "setpagelanguage"

WriteCallsIssued == SelectSeq(calls, IsWriteCall)

\* The reply carries an error member (RemoteAPIError).
IsRemoteAPIError(r) == r.http = "ok" /\ r.body = "object" /\ r.error # Absent

\* The post or raise_for_status() failed (TransportError).
IsTransportError(r) == r.http \in HttpFailures

\* The reply carries a success payload with readable members.
HasSuccessPayload(r) == r.http = "ok" /\ r.body = "object" /\ r.spl = "object"

\* The last line printed before the closing "finished" line, if any.
LastOutcomeLine ==
    IF out[Len(out)].kind = "finished" THEN out[Len(out) - 1] ELSE out[Len(out)]

\* C1: after a successful authentication and a read of the title list, the
\* run ends with exactly one write call per title, in the order of the list:
\* the i-th write call names the i-th title, duplicates included.
C1_OneWriteCallPerTitle ==
    (pc = "exited" /\ file_state = "read") =>
        /\ Len(WriteCallsIssued) = Len(page_titles)
        /\ \A i \in 1..Len(page_titles) : WriteCallsIssued[i].title = page_titles[i]

\* C2: when the write call of some position fails with an error member in
\* the reply or with a transport failure, every later title still gets its
\* write call and the run ends with the "Script finished" line.
C2_FailureDoesNotStopBatch ==
    pc = "exited" =>
        \A i \in 1..Len(write_replies) :
            (IsRemoteAPIError(write_replies[i]) \/ IsTransportError(write_replies[i]))
            => /\ \A j \in (i + 1)..Len(page_titles) :
                     /\ j <= Len(WriteCallsIssued)
                     /\ WriteCallsIssued[j].title = page_titles[j]
               /\ out[Len(out)].kind = "finished"

\* C3 as stated: a run that finds the input file missing exits with status 1
\* having issued no HTTP request at all.
C3_MissingFileNoNetworkCalls ==
    (pc = "exited" /\ file_state = "missing") =>
        (exit_status = 1 /\ Len(calls) = 0)

\* C3 amended: a run that finds the input file missing prints the
\* file-not-found message and exits with status 1; by then authentication has
\* succeeded, so exactly the three authentication requests have been issued,
\* in order, and no write call.
C3_MissingFileAfterLogin ==
    file_state = "missing" =>
        /\ pc = "exited"
        /\ exit_status = 1
        /\ calls = <<LoginTokenCall,
                     LoginCall(BOT_USER_NAME, BOT_PASSWORD, login_token),
                     CsrfTokenCall>>
        /\ Len(out) >= 2
        /\ out[Len(out) - 1].kind = "file_not_found"
        /\ out[Len(out)].kind = "file_hint"

C3_Witness == file_state = "missing" /\ pc = "exited" /\ Len(calls) = 3

\* C4: when the reply to the login post does not carry result 'Success', the
\* process prints a login error and exits with status 1 with no CSRF-token
\* request, no read of the input file and no write call; when the reply is an
\* object whose login member is absent or an object, the error is the
\* "Login failed" one and carries the remote reason, or 'Unknown reason' when
\* the reply gives none.
C4_LoginFailureAborts ==
    (login_data.http # "none" /\ login_data.result # "Success") =>
        /\ pc = "exited"
        /\ exit_status = 1
        /\ \A i \in 1..Len(calls) : calls[i] # CsrfTokenCall /\ ~IsWriteCall(calls[i])
        /\ file_state = "unopened"
        /\ out[Len(out)].kind = "login_error"
        /\ (login_data.http = "ok" /\ login_data.body = "object"
            /\ login_data.login \in {Absent, "object"})
           => /\ out[Len(out)].a = "Exception"
              /\ out[Len(out)].b =
                    (IF login_data.reason = Absent THEN "Unknown reason"
                     ELSE IF login_data.reason = JsonNull THEN "None"
                     ELSE login_data.reason)

C4_Witness ==
    /\ pc = "exited"
    /\ login_data.result = "Failed"
    /\ login_data.reason = Absent
    /\ out[Len(out)].b = "Unknown reason"

\* C5: no exception leaves set_page_language: whatever the reply to the write
\* call, one outcome line is printed for the title and control returns to the
\* loop in main.
C5_NoExceptionEscapes ==
    processed > 0 =>
        /\ uncaught = ""
        /\ LastOutcomeLine.kind \in {"http_error", "api_error", "success", "warning"}

\* C6: a run of main exits with status 1 exactly when authentication failed or
\* the input file was not found, and every run that read the title list exits
\* with status 0 whatever the per-title outcomes were.
C6_ExitStatus ==
    (pc = "exited" /\ main_called) =>
        /\ exit_status \in {0, 1}
        /\ exit_status = 1 <=> (file_state = "unopened" \/ file_state = "missing")
        /\ file_state = "read" => exit_status = 0

\* C7: the authentication requests are issued in the order login-token
\* request, login post, CSRF-token request, each at most once and before any
\* write call; the CSRF-token request is issued only when the login post
\* returned result 'Success'; and a write call is issued only once the
\* CSRF-token request has returned a token, which the call carries.
C7_CsrfOnlyAfterLogin ==
    /\ \A i \in 1..Len(calls) :
          /\ i = 1 => calls[i] = LoginTokenCall
          /\ i = 2 => calls[i] = LoginCall(BOT_USER_NAME, BOT_PASSWORD, login_token)
          /\ i = 3 => calls[i] = CsrfTokenCall
          /\ i > 3 => IsWriteCall(calls[i])
    /\ Len(calls) >= 2 => login_token \in LoginTokens
    /\ Len(calls) >= 3 => (login_data.http = "ok" /\ login_data.result = "Success")
    /\ Len(calls) >= 4 =>
          /\ csrf_token \in CsrfTokens
          /\ \A i \in 4..Len(calls) : calls[i].token = csrf_token

C7_Witness ==
    /\ Len(calls) >= 5
    /\ IsWriteCall(calls[5])
    /\ csrf_token = "CT1"

\* The positions of a file's content where a non-blank line starts, and the
\* positions before which a line ends.  A line ends at a newline or a
\* carriage return (the newline after a carriage return then stands for a
\* line without ink, which counts for nothing).
LineBreaks == {"\n", "\r"}

LineEnd(c, s) ==
    IF \E e \in s..Len(c) : c[e] \in LineBreaks
    THEN CHOOSE e \in s..Len(c) :
            c[e] \in LineBreaks /\ \A k \in s..(e - 1) : c[k] \notin LineBreaks
    ELSE Len(c)

\* Of the characters file contents are made of here, the letter alone is
\* no white space.
Letters == {"a"}

InkOfLine(c, s) == {k \in s..LineEnd(c, s) : c[k] \in Letters}

NonBlankLineStarts(c) ==
    {s \in 1..Len(c) : (s = 1 \/ c[s - 1] \in LineBreaks) /\ InkOfLine(c, s) # {}}

\* C8: the title list read from a file has one entry per line that is not
\* blank after trimming, in the order of the lines, each entry being its line
\* from the first to the last non-whitespace character; blank lines add
\* nothing and equal lines are not merged.
C8_ReaderKeepsNonBlankLinesInOrder ==
    file_state = "read" =>
        LET starts == NonBlankLineStarts(file_content) IN
        /\ Len(page_titles) = Cardinality(starts)
        /\ \A s \in starts :
              LET k == Cardinality({t \in starts : t <= s})
                  ink == InkOfLine(file_content, s)
                  first == CHOOSE f \in ink : \A g \in ink : f <= g
                  last == CHOOSE l \in ink : \A g \in ink : g <= l
              IN page_titles[k] = SubSeq(file_content, first, last)

C8_Witness ==
    /\ file_state = "read"
    /\ file_content = <<" ", "a", "\n", "\n", "a">>
    /\ page_titles = << <<"a">>, <<"a">> >>

\* C9: a reply with a success payload and no error member is reported as a
\* success whose new language is the payload's 'to' (the configured target
\* language when 'to' is missing) and whose previous language is the
\* payload's 'from' ('[not previously set]' when 'from' is missing); a reply
\* with a success payload and an error member is reported as an API error.
C9_SuccessRendering ==
    (processed > 0 /\ HasSuccessPayload(write_replies[processed])) =>
        LET r == write_replies[processed] IN
        IF r.error # Absent
        THEN LastOutcomeLine.kind = "api_error"
        ELSE /\ LastOutcomeLine.kind = "success"
             /\ LastOutcomeLine.a = (IF r.to = Absent THEN TARGET_LANG ELSE r.to)
             /\ LastOutcomeLine.b =
                   (IF r.from = Absent THEN "[not previously set]" ELSE r.from)

\* C10: with the user name or the password left at its placeholder the script
\* only prints the warning and ends with status 0: main is not entered, no
\* request is issued and the input file is not opened; main is entered exactly
\* when both values differ from their placeholders.
C10_PlaceholderGuard ==
    pc # "start" =>
        IF BOT_USER_NAME = "bot_user_name" \/ BOT_PASSWORD = "bot_password"
        THEN /\ pc = "exited"
             /\ exit_status = 0
             /\ ~main_called
             /\ calls = <<>>
             /\ file_state = "unopened"
             /\ Len(out) = 1
             /\ out[1].kind = "credentials_warning"
        ELSE main_called

C10_Witness ==
    /\ pc = "exited"
    /\ BOT_USER_NAME # "bot_user_name"
    /\ BOT_PASSWORD = "bot_password"

====
